---- MODULE Spec2Model ----
(***************************************************************************)
(* A model of the notes program of src/src/index.ts: the Note class, the   *)
(* NotesManager store with its undo/redo stacks, and saveToFile /          *)
(* loadFromFile against the file system (Node) or localStorage (browser).  *)
(*                                                                         *)
(* JavaScript objects are shared by reference: the same Note object can    *)
(* sit in notes and in entries of both stacks.  A Note is modelled as a    *)
(* record whose field obj is the identity of the object; every copy of a   *)
(* record with the same obj is the same object, and Note.update rewrites   *)
(* all of them.                                                            *)
(***************************************************************************)
EXTENDS Integers, Sequences, FiniteSets, TLC

VARIABLES
    notes,      \* NotesManager.notes: sequence of Note objects
    undoStack,  \* NotesManager.undoStack: sequence of {action, data: {note}}
    redoStack,  \* NotesManager.redoStack
    clock,      \* the current instant, what new Date() returns
    window,     \* TRUE in a browser (typeof window !== 'undefined'), FALSE in Node
    file,       \* what the backend holds under fileName (file / localStorage key)
    ops,        \* the saveToFile / loadFromFile calls in flight (Node), oldest first
    last,       \* the persistence call that ended in the last step, and how
    hist        \* the calls made so far, each with the store it left (SpecH, SpecSeq)

vars == <<notes, undoStack, redoStack, clock, window, file, ops, last, hist>>

\* ------------------------------------------------------------- bounds
MaxId == 2       \* ids are 1..MaxId
MaxTitle == 2    \* titles are 1..MaxTitle
MaxContent == 1  \* contents are 1..MaxContent
MaxNotes == 3    \* longest notes array explored
MaxStack == 3    \* longest undo / redo stack explored
MaxClock == 1    \* instants are 0..MaxClock
MaxHist == 4     \* longest history of calls explored (SpecH)
MaxSeq == 3      \* longest sequence of add / delete calls replayed (SpecSeq)
MaxFile == 3     \* most records in the backend explored
MaxInitFile == 2 \* most records in the backend when the program starts
MaxOps == 2      \* persistence calls in flight at once
MaxIOCalls == 2  \* add / delete calls made while persistence is explored (SpecIO)

Ids == 1..MaxId
Titles == 1..MaxTitle
Contents == 1..MaxContent
Instants == 0..MaxClock

\* ------------------------------------------------------------- values
\* An optional constructor argument that was not passed (id?, createdAt?, updatedAt?),
\* or a property a stored record does not have.
Undefined == -1
\* A Date whose time value is NaN: new Date(undefined).
InvalidDate == -2
\* JSON null: what JSON.stringify writes for an invalid Date.
JsonNull == -3

Last(s) == s[Len(s)]
Front(s) == SubSeq(s, 1, Len(s) - 1)
RemoveAt(s, i) == SubSeq(s, 1, i - 1) \o SubSeq(s, i + 1, Len(s))
Min(S) == CHOOSE x \in S : \A y \in S : x <= y

\* ------------------------------------------------------------- Note
\* new Note(title, content, id?, createdAt?, updatedAt?) evaluated at instant now;
\* gen is what generateUniqueId() returns (Math.random: any id), obj the new
\* object's identity.
Note(obj, now, gen, title, content, id, createdAt, updatedAt) ==
    [obj |-> obj,
     id |-> IF id = Undefined THEN gen ELSE id,
     title |-> title,
     content |-> content,
     createdAt |-> IF createdAt = Undefined THEN now ELSE createdAt,
     updatedAt |-> IF updatedAt = Undefined THEN now ELSE updatedAt]

update_keepsStamp(note, now, title, content) ==
    [note EXCEPT !.title = title, !.content = content]

\* note.update(title, content) at instant now.
update(note, now, title, content) ==
    [note EXCEPT !.title = title, !.content = content, !.updatedAt = now]

\* ------------------------------------------------------------- NotesManager
\* The store as a value: the operations below map a store to a store.
Store == [notes |-> notes, undoStack |-> undoStack, redoStack |-> redoStack,
          console |-> <<>>]

printOperationResult(s, message) ==
    [s EXCEPT !.console = Append(@, <<"log", message>>)]

printError(s, message) ==
    [s EXCEPT !.console = Append(@, <<"error", message>>)]

addNoteWithoutStacking_clearsRedo(s, note) ==
    printOperationResult([s EXCEPT !.notes = Append(@, note),
                                   !.redoStack = <<>>], "added")

addNoteWithoutStacking(s, note) ==
    printOperationResult([s EXCEPT !.notes = Append(@, note)], "added")

addNote_keepRedo(s, note) ==
    printOperationResult(
        [s EXCEPT !.notes = Append(@, note),
                  !.undoStack = Append(@, [action |-> "addNote", note |-> note])],
        "added")

addNote(s, note) ==
    printOperationResult(
        [s EXCEPT !.notes = Append(@, note),
                  !.undoStack = Append(@, [action |-> "addNote", note |-> note]),
                  !.redoStack = <<>>],
        "added")

\* Array.prototype.findIndex(note => note.id === noteId): the first index, or -1.
findIndex(ns, noteId) ==
    LET hits == {i \in 1..Len(ns) : ns[i].id = noteId}
    IN  IF hits = {} THEN -1 ELSE Min(hits)

getNoteById_none(s, noteId) == FALSE

getNoteById_first(s, noteId) == s.notes # <<>> /\ s.notes[1].id = noteId

\* getNoteById: TRUE when find() returns a note (the callers only test it).
getNoteById(s, noteId) == findIndex(s.notes, noteId) # -1

deleteNoteById_keepRedo(s, noteId) ==
    LET index == findIndex(s.notes, noteId)
    IN  IF index # -1
        THEN LET deletedNote == s.notes[index]
             IN  printOperationResult(
                     [s EXCEPT !.notes = RemoveAt(@, index),
                               !.undoStack = Append(@, [action |-> "deleteNote",
                                                        note |-> deletedNote])],
                     "deleted")
        ELSE s

deleteNoteById_clearsRedo(s, noteId) ==
    LET index == findIndex(s.notes, noteId)
    IN  IF index # -1
        THEN LET deletedNote == s.notes[index]
             IN  printOperationResult(
                     [s EXCEPT !.notes = RemoveAt(@, index),
                               !.undoStack = Append(@, [action |-> "deleteNote",
                                                        note |-> deletedNote]),
                               !.redoStack = <<>>],
                     "deleted")
        ELSE [s EXCEPT !.redoStack = <<>>]

deleteNoteById(s, noteId) ==
    LET index == findIndex(s.notes, noteId)
    IN  IF index # -1
        THEN LET deletedNote == s.notes[index]
             IN  printOperationResult(
                     [s EXCEPT !.notes = RemoveAt(@, index),
                               !.undoStack = Append(@, [action |-> "deleteNote",
                                                        note |-> deletedNote]),
                               !.redoStack = <<>>],
                     "deleted")
        ELSE s

\* deleteNoteWithoutStacking, which only the earlier build of the class has
\* (src/unnamed/part_000): the removal of deleteNoteById without the stacks.
deleteNoteWithoutStacking(s, id) ==
    LET index == findIndex(s.notes, id)
    IN  IF index # -1
        THEN printOperationResult([s EXCEPT !.notes = RemoveAt(@, index)], "deleted")
        ELSE printError(s, "not-found")

undo_dropsEntry(s) ==
    IF s.undoStack = <<>> THEN s
    ELSE LET lastAction == Last(s.undoStack)
             s1 == [s EXCEPT !.undoStack = Front(@)]
             s2 == CASE lastAction.action = "addNote" ->
                            [s1 EXCEPT !.notes = IF @ = <<>> THEN @ ELSE Front(@)]
                    [] lastAction.action = "deleteNote" ->
                            [s1 EXCEPT !.notes = Append(@, lastAction.note)]
         IN  printOperationResult(s2, "undo")

undo_noReadd(s) ==
    IF s.undoStack = <<>> THEN s
    ELSE LET lastAction == Last(s.undoStack)
             s1 == [s EXCEPT !.undoStack = Front(@)]
             s2 == CASE lastAction.action = "addNote" ->
                            [s1 EXCEPT !.notes = IF @ = <<>> THEN @ ELSE Front(@)]
                    [] lastAction.action = "deleteNote" -> s1
         IN  printOperationResult(
                 [s2 EXCEPT !.redoStack = Append(@, lastAction)], "undo")

undo_unguarded(s) ==
    LET s2 == IF s.undoStack = <<>>
              THEN [s EXCEPT !.notes = IF @ = <<>> THEN @ ELSE Front(@)]
              ELSE LET lastAction == Last(s.undoStack)
                       s1 == [s EXCEPT !.undoStack = Front(@),
                                       !.redoStack = Append(@, lastAction)]
                   IN  CASE lastAction.action = "addNote" ->
                                [s1 EXCEPT !.notes = IF @ = <<>> THEN @ ELSE Front(@)]
                         [] lastAction.action = "deleteNote" ->
                                [s1 EXCEPT !.notes = Append(@, lastAction.note)]
    IN  printOperationResult(s2, "undo")

undo(s) ==
    IF s.undoStack = <<>> THEN s
    ELSE LET lastAction == Last(s.undoStack)
             s1 == [s EXCEPT !.undoStack = Front(@)]
             s2 == CASE lastAction.action = "addNote" ->
                            \* this.notes.pop(): drops the last element, if any
                            [s1 EXCEPT !.notes = IF @ = <<>> THEN @ ELSE Front(@)]
                    [] lastAction.action = "deleteNote" ->
                            [s1 EXCEPT !.notes = Append(@, lastAction.note)]
         IN  printOperationResult(
                 [s2 EXCEPT !.redoStack = Append(@, lastAction)], "undo")

redo_skipDelete(s) ==
    IF s.redoStack = <<>> THEN s
    ELSE LET lastUndoAction == Last(s.redoStack)
             s1 == [s EXCEPT !.redoStack = Front(@)]
             s2 == CASE lastUndoAction.action = "addNote" ->
                            [s1 EXCEPT !.notes = Append(@, lastUndoAction.note)]
                    [] lastUndoAction.action = "deleteNote" -> s1
         IN  printOperationResult(
                 [s2 EXCEPT !.undoStack = Append(@, lastUndoAction)], "redo")

redo(s) ==
    IF s.redoStack = <<>> THEN s
    ELSE LET lastUndoAction == Last(s.redoStack)
             s1 == [s EXCEPT !.redoStack = Front(@)]
             s2 == CASE lastUndoAction.action = "addNote" ->
                            [s1 EXCEPT !.notes = Append(@, lastUndoAction.note)]
                    [] lastUndoAction.action = "deleteNote" ->
                            deleteNoteById(s1, lastUndoAction.note.id)
         IN  printOperationResult(
                 [s2 EXCEPT !.undoStack = Append(@, lastUndoAction)], "redo")

\* ------------------------------------------------------------- JSON
\* Date.prototype.toJSON: the ISO string of the instant (written as the instant
\* itself: both have millisecond precision), null for an invalid Date.
dateToJSON(d) == IF d = InvalidDate THEN JsonNull ELSE d

\* new Date(value) for a value read from a stored record.
newDate(v) ==
    CASE v = Undefined -> InvalidDate
      [] v = JsonNull -> 0
      [] OTHER -> v

\* JSON.stringify of one Note: its own enumerable properties, dates as strings.
\* The object's identity is not part of the text.
noteToJSON(note) ==
    [kind |-> "object", id |-> note.id, title |-> note.title,
     content |-> note.content,
     createdAt |-> dateToJSON(note.createdAt),
     updatedAt |-> dateToJSON(note.updatedAt)]

\* The element null of a stored array: a malformed record.
NullElement ==
    [kind |-> "null", id |-> Undefined, title |-> Undefined, content |-> Undefined,
     createdAt |-> Undefined, updatedAt |-> Undefined]

\* Backend contents: no file / no key, text that JSON.parse rejects, text of a
\* JSON value that is no array (an object, a number, null), or text of an array.
Absent == [kind |-> "absent", items |-> <<>>]
Garbage == [kind |-> "garbage", items |-> <<>>]
NonArray == [kind |-> "nonarray", items |-> <<>>]
ArrayText(items) == [kind |-> "array", items |-> items]

SeqMap(f(_), s) == [i \in 1..Len(s) |-> f(s[i])]

\* JSON.stringify(existingNotes.concat(notes), null, 2): parsed elements are
\* written back as they were read, Note objects by noteToJSON.
stringify(existing, ns) == ArrayText(existing \o SeqMap(noteToJSON, ns))

\* ------------------------------------------------------------- saveToFile
\* The fs.readFile callback of saveToFile (Node), run with the read's outcome:
\* the store with what was printed, the text handed to fs.writeFile, and
\* whether existingNotes.concat threw (a parsed value that has no concat).
saveReadCallback(s, readError, data) ==
    LET parseFails == ~readError /\ data.kind = "garbage"
        s1 == IF parseFails THEN printError(s, "parse-existing") ELSE s
        existingNotes == IF readError \/ parseFails THEN <<>> ELSE data.items
        threw == ~readError /\ data.kind = "nonarray"
    IN  [s |-> s1, threw |-> threw,
         json |-> IF threw THEN Absent ELSE stringify(existingNotes, s.notes)]

\* The fs.writeFile callback of saveToFile (Node).
saveWriteCallback(s, writeError) ==
    IF writeError THEN printError(s, "save") ELSE printOperationResult(s, "saved")

\* saveToFile in a browser: the text localStorage.setItem is given.
saveBrowser(s) == stringify(<<>>, s.notes)

\* ------------------------------------------------------------- loadFromFile
LiveNotes(s) ==
    {s.notes[i] : i \in 1..Len(s.notes)}
        \cup {s.undoStack[i].note : i \in 1..Len(s.undoStack)}
        \cup {s.redoStack[i].note : i \in 1..Len(s.redoStack)}

\* The identity of the next object created: the first one that no object of
\* the store, and none a kept history remembers, has.
FreshObj(s) ==
    LET remembered == UNION {{hist[i].notes[j].obj : j \in 1..Len(hist[i].notes)}
                                \cup {hist[i].undoStack[j].note.obj :
                                         j \in 1..Len(hist[i].undoStack)}
                                \cup {hist[i].redoStack[j].note.obj :
                                         j \in 1..Len(hist[i].redoStack)}
                             : i \in 1..Len(hist)}
        used == {n.obj : n \in LiveNotes(s)} \cup remembered
    IN  Min({k \in 1..(Cardinality(used) + 1) : k \notin used})

\* Object identities are arbitrary: a store is kept up to renaming of them,
\* its objects numbered in the order notes, undoStack, redoStack first refer
\* to them.  With a history kept, identities stay as they were given.
Renumber(s) ==
    LET all == [i \in 1..Len(s.notes) |-> s.notes[i].obj]
                 \o [i \in 1..Len(s.undoStack) |-> s.undoStack[i].note.obj]
                 \o [i \in 1..Len(s.redoStack) |-> s.redoStack[i].note.obj]
        firsts == {i \in 1..Len(all) : \A j \in 1..(i - 1) : all[j] # all[i]}
        rank == [o \in {all[i] : i \in firsts} |->
                    Cardinality({i \in firsts : i <= CHOOSE j \in firsts : all[j] = o})]
        ren(n) == [n EXCEPT !.obj = rank[@]]
        renEntry(e) == [e EXCEPT !.note = ren(@)]
    IN  [s EXCEPT !.notes = [i \in 1..Len(s.notes) |-> ren(s.notes[i])],
                  !.undoStack = [i \in 1..Len(s.undoStack) |->
                                    renEntry(s.undoStack[i])],
                  !.redoStack = [i \in 1..Len(s.redoStack) |->
                                    renEntry(s.redoStack[i])]]

\* for (const noteData of notesData) { ... } from element k on: the store,
\* and whether an element threw (noteData.id of null).
RECURSIVE loadItems(_, _, _, _, _)
loadItems(s, items, k, now, gen) ==
    IF k > Len(items) THEN [s |-> s, threw |-> FALSE]
    ELSE LET noteData == items[k]
         IN  IF noteData.kind = "null" THEN [s |-> s, threw |-> TRUE]
             ELSE IF ~getNoteById(s, noteData.id)
                  THEN LET note == Note(FreshObj(s), now, gen,
                                        noteData.title, noteData.content,
                                        noteData.id,
                                        newDate(noteData.createdAt),
                                        newDate(noteData.updatedAt))
                       IN  loadItems([s EXCEPT !.notes = Append(@, note)],
                                     items, k + 1, now, gen)
                  ELSE loadItems(s, items, k + 1, now, gen)

\* The try block of loadFromFile on the text read: the store afterwards and
\* whether callback() was called.
loadText(s, data, now, gen) ==
    IF data.kind # "array"
    THEN \* JSON.parse throws, or for..of throws on a value that is not iterable
         [s |-> printError(s, "parse"), cb |-> 0]
    ELSE LET r == loadItems(s, data.items, 1, now, gen)
         IN  IF r.threw THEN [s |-> printError(r.s, "parse"), cb |-> 0]
             ELSE [s |-> printOperationResult(r.s, "loaded"), cb |-> 1]

\* loadFromFile once the backend has answered: the fs.readFile callback (Node:
\* readError is the error argument) or the whole call (browser: readError is
\* a getItem that returned nothing).
loadFromFile(s, readError, data, now, gen) ==
    IF readError THEN [s |-> printError(s, "load"), cb |-> 0]
    ELSE loadText(s, data, now, gen)

\* ------------------------------------------------------------- initial states
SeqsUpTo(S, n) == UNION {[1..k -> S] : k \in 0..n}

\* Records an earlier run of the program wrote, and the malformed element.
InitElements ==
    {noteToJSON(Note(0, 0, id, 1, 1, Undefined, Undefined, Undefined)) : id \in Ids}
        \cup {NullElement}

InitFiles ==
    {Absent, Garbage, NonArray}
        \cup {ArrayText(items) : items \in SeqsUpTo(InitElements, MaxInitFile)}

\* No persistence call has ended in the last step.
NoCall ==
    [kind |-> "none", cb |-> 0, err |-> 0, wrote |-> FALSE, threw |-> FALSE,
     had |-> [kind |-> "absent", items |-> <<>>]]

\* new NotesManager(), in either environment, over any backend contents.
InitProgram ==
    /\ notes = <<>>
    /\ undoStack = <<>>
    /\ redoStack = <<>>
    /\ clock = 0
    /\ window \in BOOLEAN
    /\ file \in InitFiles
    /\ ops = <<>>
    /\ last = NoCall

Init == InitProgram /\ hist = <<>>

\* ------------------------------------------------------------- history
Snapshot(op, arg, t) ==
    [op |-> op, arg |-> arg, notes |-> t.notes, undoStack |-> t.undoStack,
     redoStack |-> t.redoStack, console |-> t.console]

InitH == InitProgram /\ hist = <<Snapshot("new", 0, Store)>>

\* The call that left the store as t is appended to the history, when one is kept.
Log(op, arg, t) ==
    hist' = IF hist = <<>> THEN hist ELSE Append(hist, Snapshot(op, arg, t))

\* ------------------------------------------------------------- actions
\* An uncaught exception in a Node callback ends the process.
Crashed == ~window /\ last.threw

SetStore(t) ==
    /\ Len(t.notes) <= MaxNotes
    /\ Len(t.undoStack) <= MaxStack
    /\ Len(t.redoStack) <= MaxStack
    /\ LET u == IF hist = <<>> THEN Renumber(t) ELSE t
       IN  /\ notes' = u.notes
           /\ undoStack' = u.undoStack
           /\ redoStack' = u.redoStack

UsedIds == {n.id : n \in LiveNotes(Store)}

Errors(c) == Cardinality({i \in 1..Len(c) : c[i][1] = "error"})

\* A store call: the store becomes t and the call is logged.
StoreCall(op, arg, t) ==
    /\ ~Crashed
    /\ SetStore(t)
    /\ Log(op, arg, t)
    /\ last' = NoCall
    /\ UNCHANGED <<clock, window, file, ops>>

Tick ==
    /\ ~Crashed
    /\ clock < MaxClock
    /\ clock' = clock + 1
    /\ last' = NoCall
    /\ UNCHANGED <<notes, undoStack, redoStack, window, file, ops, hist>>

\* yourNotes.addNote(new Note(title, content, id?)): an id the caller passes,
\* or a generated one, which no note of the store has.
AddNewNote ==
    \E title \in Titles, content \in Contents, id \in Ids \cup {Undefined} :
        \E gen \in IF id = Undefined THEN Ids \ UsedIds ELSE {id} :
            LET note == Note(FreshObj(Store), clock, gen, title, content, id,
                             Undefined, Undefined)
            IN  StoreCall("addNote", note.id, addNote(Store, note))

\* yourNotes.addNote(new Note(title, content, id, createdAt?, updatedAt?)):
\* the caller passes dates, any of them, or leaves them out.
AddDatedNote ==
    \E title \in Titles, content \in Contents, id \in Ids,
       createdAt \in Instants \cup {Undefined},
       updatedAt \in Instants \cup {Undefined} :
        LET note == Note(FreshObj(Store), clock, id, title, content, id,
                         createdAt, updatedAt)
        IN  StoreCall("addNote", note.id, addNote(Store, note))

\* yourNotes.addNote(note) with a Note object the store already refers to.
AddSameNote ==
    \E note \in LiveNotes(Store) :
        StoreCall("addNote", note.id, addNote(Store, note))

\* yourNotes.addNoteWithoutStacking(note) with a new Note or one the store
\* refers to (a note an undo took out of notes).
AddNoteWithoutStacking ==
    \E title \in Titles, content \in Contents, id \in Ids :
        \E note \in {Note(FreshObj(Store), clock, id, title, content, id,
                          Undefined, Undefined)} \cup LiveNotes(Store) :
            StoreCall("addNoteWithoutStacking", note.id,
                      addNoteWithoutStacking(Store, note))

DeleteNoteWithoutStacking ==
    \E id \in Ids :
        StoreCall("deleteNoteWithoutStacking", id,
                  deleteNoteWithoutStacking(Store, id))

DeleteNoteById ==
    \E noteId \in Ids :
        StoreCall("deleteNoteById", noteId, deleteNoteById(Store, noteId))

Undo == StoreCall("undo", 0, undo(Store))

Redo == StoreCall("redo", 0, redo(Store))

\* note.update(title, content) on a Note object the store refers to: every
\* reference to the object (in notes and in both stacks) shows the change.
UpdateNote ==
    /\ ~Crashed
    /\ \E target \in {notes[i] : i \in 1..Len(notes)},
          title \in Titles, content \in Contents :
         LET upd(n) == IF n.obj = target.obj
                       THEN update(n, clock, title, content) ELSE n
             updEntry(e) == [e EXCEPT !.note = upd(@)]
             t == [Store EXCEPT !.notes = SeqMap(upd, notes),
                                !.undoStack = SeqMap(updEntry, undoStack),
                                !.redoStack = SeqMap(updEntry, redoStack)]
         IN  /\ SetStore(t)
             /\ Log("update", [obj |-> target.obj, title |-> title,
                               content |-> content, now |-> clock], t)
    /\ last' = NoCall
    /\ UNCHANGED <<clock, window, file, ops>>

\* A call in flight: which call, what it waits for, what the backend held when
\* it was made, what its read found there, the text it is about to write, and
\* the error lines it has printed.
StartOp(kind) ==
    [kind |-> kind, pc |-> "read", had |-> file, seen |-> Absent, json |-> Absent,
     err |-> 0]

\* saveToFile(fileName, callback) in Node: fs.readFile is started.
SaveCall ==
    /\ ~Crashed /\ ~window
    /\ Len(ops) < MaxOps
    /\ ops' = Append(ops, StartOp("save"))
    /\ last' = NoCall
    /\ UNCHANGED <<notes, undoStack, redoStack, clock, window, file, hist>>

\* The read of a save completes and its callback runs: fs.writeFile is
\* started, or concat throws.
SaveRead ==
    /\ ~Crashed
    /\ \E k \in 1..Len(ops), readError \in BOOLEAN :
         /\ ops[k].kind = "save" /\ ops[k].pc = "read"
         /\ file.kind = "absent" => readError
         /\ LET r == saveReadCallback(Store, readError, file)
                e == Errors(r.s.console)
            IN  /\ Len(r.json.items) <= MaxFile
                /\ IF r.threw
                   THEN /\ ops' = RemoveAt(ops, k)
                        /\ last' = [NoCall EXCEPT !.kind = "save", !.err = e,
                                                  !.threw = TRUE,
                                                  !.had = ops[k].had]
                   ELSE /\ ops' = [ops EXCEPT ![k].pc = "write",
                                             ![k].seen = file,
                                             ![k].json = r.json, ![k].err = e]
                        /\ last' = NoCall
    /\ UNCHANGED <<notes, undoStack, redoStack, clock, window, file, hist>>

\* The write of a save completes and its callback runs.
SaveWrite ==
    /\ ~Crashed
    /\ \E k \in 1..Len(ops), writeError \in BOOLEAN :
         /\ ops[k].kind = "save" /\ ops[k].pc = "write"
         /\ LET s == saveWriteCallback(Store, writeError)
            IN  /\ file' = IF writeError THEN file ELSE ops[k].json
                /\ ops' = RemoveAt(ops, k)
                /\ last' = [kind |-> "save",
                            cb |-> IF writeError THEN 0 ELSE 1,
                            err |-> ops[k].err + Errors(s.console),
                            wrote |-> ~writeError, threw |-> FALSE,
                            had |-> ops[k].had]
    /\ UNCHANGED <<notes, undoStack, redoStack, clock, window, hist>>

\* saveToFile in a browser, one synchronous call; setItem may throw (quota),
\* and the exception leaves saveToFile.
SaveBrowser ==
    /\ window
    /\ \E setItemThrows \in BOOLEAN :
         /\ file' = IF setItemThrows THEN file ELSE saveBrowser(Store)
         /\ last' = [kind |-> "save", cb |-> IF setItemThrows THEN 0 ELSE 1,
                     err |-> 0, wrote |-> ~setItemThrows, threw |-> setItemThrows,
                     had |-> file]
    /\ UNCHANGED <<notes, undoStack, redoStack, clock, window, ops, hist>>

\* loadFromFile(fileName, callback) in Node: fs.readFile is started.
LoadCall ==
    /\ ~Crashed /\ ~window
    /\ Len(ops) < MaxOps
    /\ ops' = Append(ops, StartOp("load"))
    /\ last' = NoCall
    /\ UNCHANGED <<notes, undoStack, redoStack, clock, window, file, hist>>

\* The read of a load completes and its callback runs.
LoadRead ==
    /\ ~Crashed
    /\ \E k \in 1..Len(ops), readError \in BOOLEAN, gen \in Ids :
         /\ ops[k].kind = "load" /\ ops[k].pc = "read"
         /\ file.kind = "absent" => readError
         /\ LET r == loadFromFile(Store, readError, file, clock, gen)
            IN  /\ SetStore(r.s)
                /\ Log("loadFromFile", 0, r.s)
                /\ ops' = RemoveAt(ops, k)
                /\ last' = [kind |-> "load", cb |-> r.cb,
                            err |-> Errors(r.s.console),
                            wrote |-> FALSE, threw |-> FALSE, had |-> ops[k].had]
    /\ UNCHANGED <<clock, window, file>>

\* loadFromFile in a browser, one synchronous call.
LoadBrowser ==
    /\ window
    /\ \E gen \in Ids :
         LET r == loadFromFile(Store, file.kind = "absent", file, clock, gen)
         IN  /\ SetStore(r.s)
             /\ Log("loadFromFile", 0, r.s)
             /\ last' = [kind |-> "load", cb |-> r.cb,
                         err |-> Errors(r.s.console),
                         wrote |-> FALSE, threw |-> FALSE, had |-> file]
    /\ UNCHANGED <<clock, window, file, ops>>

\* ------------------------------------------------------------- specifications
\* The whole program.
Next ==
    \/ Tick
    \/ AddNewNote
    \/ AddDatedNote
    \/ AddSameNote
    \/ AddNoteWithoutStacking
    \/ DeleteNoteWithoutStacking
    \/ DeleteNoteById
    \/ Undo
    \/ Redo
    \/ UpdateNote
    \/ SaveCall
    \/ SaveRead
    \/ SaveWrite
    \/ SaveBrowser
    \/ LoadCall
    \/ LoadRead
    \/ LoadBrowser

Spec == Init /\ [][Next]_vars

\* The store: its calls and loadFromFile over any backend contents, with the
\* history of the calls kept, up to MaxHist calls.
HistRoom == Len(hist) <= MaxHist

NextH ==
    \/ HistRoom /\ AddNewNote
    \/ HistRoom /\ AddSameNote
    \/ HistRoom /\ DeleteNoteById
    \/ HistRoom /\ Undo
    \/ HistRoom /\ Redo
    \/ HistRoom /\ LoadCall
    \/ HistRoom /\ LoadRead
    \/ HistRoom /\ LoadBrowser

SpecH == InitH /\ [][NextH]_vars

\* Undo / redo replay: a store, possibly populated by one loadFromFile, then
\* up to MaxSeq add / delete calls, then undo until undoStack is empty, then
\* redo, once per call of the sequence.
Count(op) == Cardinality({i \in 1..Len(hist) : hist[i].op = op})
SeqCalls == {i \in 1..Len(hist) : hist[i].op \in {"addNote", "deleteNoteById"}}
\* The entry of the history that holds the store the sequence started from.
Base == 1 + Count("loadFromFile")

Preparing == SeqCalls = {} /\ Count("loadFromFile") = 0
Sequencing ==
    /\ Count("undo") = 0 /\ Count("redo") = 0
    /\ Cardinality(SeqCalls) < MaxSeq
Undoing == SeqCalls # {} /\ Count("redo") = 0 /\ undoStack # <<>>
Redoing ==
    /\ SeqCalls # {}
    /\ \/ hist[Len(hist)].op = "redo"
       \/ Count("redo") = 0 /\ undoStack = <<>>
    /\ Count("redo") < Cardinality(SeqCalls)

NextSeq ==
    \/ Preparing /\ LoadCall
    \/ Preparing /\ LoadRead
    \/ Preparing /\ LoadBrowser
    \/ Sequencing /\ AddNewNote
    \/ Sequencing /\ AddSameNote
    \/ Sequencing /\ DeleteNoteById
    \/ Undoing /\ Undo
    \/ Redoing /\ Redo

SpecSeq == InitH /\ [][NextSeq]_vars

\* Persistence: saves in flight together with the calls that change what is
\* saved, up to MaxIOCalls of them.
CallRoom == Len(undoStack) < MaxIOCalls

NextIO ==
    \/ Tick
    \/ CallRoom /\ AddNewNote
    \/ CallRoom /\ DeleteNoteById
    \/ SaveCall
    \/ SaveRead
    \/ SaveWrite
    \/ SaveBrowser

SpecIO == Init /\ [][NextIO]_vars

\* Round trip: a program that starts on a key nothing was saved under, makes
\* its store calls one at a time and lets each saveToFile complete before the
\* next call.
InitRT == Init /\ file = Absent

Idle == ops = <<>>

NextRT ==
    \/ Tick
    \/ Idle /\ AddNewNote
    \/ Idle /\ DeleteNoteById
    \/ Idle /\ UpdateNote
    \/ Idle /\ SaveCall
    \/ SaveRead
    \/ SaveWrite
    \/ Idle /\ SaveBrowser

SpecRT == InitRT /\ [][NextRT]_vars

\* Dates: in a browser with nothing stored yet, a note constructed with or
\* without dates as the first store call, then updated, deleted, saved and
\* loaded back.
InitDates == Init /\ window /\ file = Absent

NoCallYet == undoStack = <<>>

NextDates ==
    \/ Tick
    \/ NoCallYet /\ AddDatedNote
    \/ CallRoom /\ DeleteNoteById
    \/ UpdateNote
    \/ SaveBrowser
    \/ LoadBrowser

SpecDates == InitDates /\ [][NextDates]_vars

\* The silent primitives among the stacking calls, with the history kept, on
\* a store that loads nothing.
InitSilent == InitH /\ file = Absent

NextSilent ==
    \/ HistRoom /\ AddNewNote
    \/ HistRoom /\ DeleteNoteById
    \/ HistRoom /\ Undo
    \/ HistRoom /\ Redo
    \/ HistRoom /\ AddNoteWithoutStacking
    \/ HistRoom /\ DeleteNoteWithoutStacking

SpecSilent == InitSilent /\ [][NextSilent]_vars

\* Note.update among the store calls, with the history kept and time passing,
\* on a store that loads nothing.
NextUpdate ==
    \/ Tick
    \/ HistRoom /\ AddNewNote
    \/ HistRoom /\ DeleteNoteById
    \/ HistRoom /\ Undo
    \/ HistRoom /\ UpdateNote

SpecUpdate == InitSilent /\ [][NextUpdate]_vars

\* Persistence alone: saveToFile and loadFromFile over any backend contents,
\* one call at a time, each fs operation that was started completing in the
\* end (Node's event loop runs the callback of every operation it started).
SaveRoom == Len(file.items) + Len(notes) <= MaxFile

NextLive ==
    \/ Idle /\ SaveRoom /\ SaveCall
    \/ SaveRead
    \/ SaveWrite
    \/ SaveBrowser
    \/ Idle /\ LoadCall
    \/ LoadRead
    \/ LoadBrowser

FairIO == WF_vars(SaveRead) /\ WF_vars(SaveWrite) /\ WF_vars(LoadRead)

SpecLive == Init /\ [][NextLive]_vars /\ FairIO

\* ------------------------------------------------------------- claims
\* The last call of the history and the one before it.
Cur == hist[Len(hist)]
Prev == hist[Len(hist) - 1]
Called(op) == Len(hist) >= 2 /\ Cur.op = op
IdsOf(ns) == {ns[i].id : i \in 1..Len(ns)}
SameStore(a, b) ==
    /\ a.notes = b.notes
    /\ a.undoStack = b.undoStack
    /\ a.redoStack = b.redoStack

\* C1 (SpecSeq): from a store whose undoStack is empty, after a sequence of
\* add / deleteById calls, undo repeated until undoStack is empty leaves notes
\* as they were before the sequence: same notes, same fields, same order.
C1_UndoAllRestores ==
    (SeqCalls # {} /\ Count("redo") = 0 /\ undoStack = <<>>)
        => notes = hist[Base].notes

\* C2 (SpecSeq): after a sequence of k calls that each took effect and undo
\* until undoStack is empty, the i-th redo makes notes equal to the notes the
\* i-th call of the sequence left.
AllEffective ==
    \A i \in SeqCalls : Len(hist[i].undoStack) = Len(hist[i - 1].undoStack) + 1

C2_RedoReplays ==
    (Count("redo") > 0 /\ AllEffective)
        => notes = hist[Base + Count("redo")].notes

\* C3 (SpecH): undo of an AddNote{note} entry removes from notes a note whose
\* id is note.id and leaves every other note in place; undo of a
\* DeleteNote{note} entry re-adds that note.
C3_UndoInvertsTop ==
    (Called("undo") /\ Prev.undoStack # <<>>) =>
        LET a == Last(Prev.undoStack)
        IN  /\ a.action = "addNote" =>
                  \E i \in 1..Len(Prev.notes) :
                      /\ Prev.notes[i].id = a.note.id
                      /\ Cur.notes = RemoveAt(Prev.notes, i)
            /\ a.action = "deleteNote" => Cur.notes = Append(Prev.notes, a.note)

\* C4 (SpecH): redo with a non-empty redoStack moves exactly one entry: the
\* redoStack loses its top entry and the undoStack gains that entry, once.
C4_RedoTransfersOne ==
    (Called("redo") /\ Prev.redoStack # <<>>) =>
        /\ Cur.redoStack = Front(Prev.redoStack)
        /\ Cur.undoStack = Append(Prev.undoStack, Last(Prev.redoStack))

\* C5 (SpecH): notes never holds two notes with the same id.
C5_NoDuplicateIds ==
    \A i, j \in 1..Len(notes) : notes[i].id = notes[j].id => i = j

\* C6 (SpecH): after an undo, a mutating call that takes effect (an add, or a
\* deleteById of a present id) leaves redoStack empty, and a redo issued next
\* changes neither notes nor undoStack.
TookEffect(i) ==
    /\ hist[i].op \in {"addNote", "deleteNoteById"}
    /\ hist[i].undoStack # hist[i - 1].undoStack

C6_MutationDiscardsRedo ==
    \A i \in 2..Len(hist) :
        (TookEffect(i) /\ \E j \in 2..(i - 1) : hist[j].op = "undo") =>
            /\ hist[i].redoStack = <<>>
            /\ (i < Len(hist) /\ hist[i + 1].op = "redo") =>
                  /\ hist[i + 1].notes = hist[i].notes
                  /\ hist[i + 1].undoStack = hist[i].undoStack

\* C6 witness: an undo left an entry to redo, a mutating call took effect,
\* and redo was called next.
C6_Witness ==
    /\ Len(hist) >= 4
    /\ Cur.op = "redo"
    /\ TookEffect(Len(hist) - 1)
    /\ hist[Len(hist) - 2].op = "undo"
    /\ hist[Len(hist) - 2].redoStack # <<>>

\* C7 (SpecH): add of a note whose id is already in notes fails: notes,
\* undoStack and redoStack are as before the call.
C7_DuplicateAddRejected ==
    (Called("addNote") /\ Cur.arg \in IdsOf(Prev.notes)) => SameStore(Cur, Prev)

\* C8 (SpecIO): the read-merge-write sequences of two saves do not interleave:
\* a save that has read and not yet written still finds the backend as it
\* read it, so its write discards nothing another save persisted.
C8_SavesDoNotInterleave ==
    \A k \in 1..Len(ops) :
        (ops[k].kind = "save" /\ ops[k].pc = "write") => file = ops[k].seen

\* C9 (SpecH): a loadFromFile that fails (it reports an error) leaves notes,
\* undoStack and redoStack as they were before the call.
C9_FailedLoadChangesNothing ==
    (Called("loadFromFile") /\ Errors(Cur.console) > 0) => SameStore(Cur, Prev)

\* C10 (SpecIO): a saveToFile that fails (it reports a parse error or a write
\* error) writes nothing: the step that ends it leaves the backend as it was.
C10_FailedSaveWritesNothing ==
    [][(last'.kind = "save" /\ last'.err > 0) => file' = file]_vars

\* The note records a backend text holds: the objects of its array.
Records(f) ==
    IF f.kind = "array"
    THEN {f.items[i] : i \in {j \in 1..Len(f.items) : f.items[j].kind = "object"}}
    ELSE {}

\* C11 (SpecIO): saveToFile is non-destructive on both backends: after a
\* successful save, every record the backend held before the call is still
\* held, so a note once persisted stays persisted whatever is deleted.
C11_PersistKeepsRecords ==
    (last.kind = "save" /\ last.wrote) => Records(last.had) \subseteq Records(file)

\* A call of the history as a store, and a load of the history that succeeded.
AsStore(h) ==
    [notes |-> h.notes, undoStack |-> h.undoStack, redoStack |-> h.redoStack,
     console |-> <<>>]
LoadOk(i) == hist[i].op = "loadFromFile" /\ Errors(hist[i].console) = 0
IsPrefix(a, b) == Len(a) <= Len(b) /\ SubSeq(b, 1, Len(a)) = a

\* C12 (SpecH): a successful loadFromFile is additive and idempotent per id:
\* the notes present before are still there, at their positions and unchanged;
\* a note is appended only if no note before it has its id; and loading the
\* same backend contents once more changes nothing.
C12_LoadAdditiveIdempotent ==
    \A i \in 2..Len(hist) :
        LoadOk(i) =>
            /\ IsPrefix(hist[i - 1].notes, hist[i].notes)
            /\ \A j \in (Len(hist[i - 1].notes) + 1)..Len(hist[i].notes) :
                  hist[i].notes[j].id \notin IdsOf(SubSeq(hist[i].notes, 1, j - 1))
            /\ \A gen \in Ids :
                  loadFromFile(AsStore(hist[i]), FALSE, file, clock, gen).s.notes
                      = hist[i].notes
            /\ (i < Len(hist) /\ LoadOk(i + 1)) => hist[i + 1].notes = hist[i].notes

\* C12 witness: a store that held a note loaded records, one of them with that
\* note's id and one that it appended, and then loaded the same contents again.
C12_Witness ==
    /\ Len(hist) >= 4
    /\ LoadOk(Len(hist)) /\ LoadOk(Len(hist) - 1)
    /\ hist[Len(hist) - 2].notes # <<>>
    /\ Len(Prev.notes) > Len(hist[Len(hist) - 2].notes)
    /\ \E r \in Records(file) : r.id \in IdsOf(hist[Len(hist) - 2].notes)

\* new NotesManager(): a fresh store.
EmptyStore ==
    [notes |-> <<>>, undoStack |-> <<>>, redoStack |-> <<>>, console |-> <<>>]
DistinctIds(ns) == \A i, j \in 1..Len(ns) : ns[i].id = ns[j].id => i = j
SameFields(a, b) ==
    /\ a.id = b.id
    /\ a.title = b.title
    /\ a.content = b.content
    /\ a.createdAt = b.createdAt
    /\ a.updatedAt = b.updatedAt

\* C13 (SpecRT): round trip: after a successful saveToFile of a store (whose
\* notes have distinct ids), a successful loadFromFile of the same key into a
\* fresh store gives, for every note of the saving store, a note with the same
\* id, title, content, createdAt and updatedAt; also when the note was
\* changed by Note.update and saved again to the same key.
C13_RoundTrip ==
    (last.kind = "save" /\ last.cb = 1 /\ DistinctIds(notes)) =>
        \A gen \in Ids :
            LET r == loadFromFile(EmptyStore, FALSE, file, clock, gen)
            IN  r.cb = 1 =>
                    \A i \in 1..Len(notes) :
                        \E j \in 1..Len(r.s.notes) :
                            SameFields(notes[i], r.s.notes[j])

\* The history starts with add(A), deleteById(A.id) on the new, empty store;
\* the calls from the k-th entry of the history on are those of seq.
AddThenDelete ==
    /\ Len(hist) >= 3
    /\ hist[2].op = "addNote"
    /\ hist[3].op = "deleteNoteById" /\ hist[3].arg = hist[2].arg
OpsFrom(k, seq) ==
    /\ Len(hist) >= k + Len(seq) - 1
    /\ \A i \in 1..Len(seq) : hist[k + i - 1].op = seq[i]
NoteA == hist[2].notes[1]

\* C14 (SpecSeq), as stated: from an empty store, after add(A),
\* deleteById(A.id), undo(), undo(), the first redo() leaves notes empty and
\* the second redo() leaves notes containing A.
C14_RedoDeleteThenAdd ==
    (AddThenDelete /\ OpsFrom(4, <<"undo", "undo", "redo">>)) =>
        /\ hist[6].notes = <<>>
        /\ OpsFrom(7, <<"redo">>) => \E i \in 1..Len(hist[7].notes) :
                                        hist[7].notes[i] = NoteA

\* C14 (SpecSeq), amended: from an empty store, after add(A),
\* deleteById(A.id), undo(), undo(), the first redo() re-applies the add and
\* leaves notes holding exactly A, and the second redo() re-applies the
\* deletion and leaves notes empty.
C14_RedoAddThenDelete ==
    (AddThenDelete /\ OpsFrom(4, <<"undo", "undo", "redo">>)) =>
        /\ hist[6].notes = <<NoteA>>
        /\ OpsFrom(7, <<"redo">>) => hist[7].notes = <<>>

\* C14 witness: the whole scenario has run, both redos included.
C14_Witness ==
    AddThenDelete /\ OpsFrom(4, <<"undo", "undo", "redo", "redo">>)

\* The invalid calls of the history: undo with nothing to undo, redo with
\* nothing to redo, deleteById of an id no note has.
UndoEmpty(i) == hist[i].op = "undo" /\ hist[i - 1].undoStack = <<>>
RedoEmpty(i) == hist[i].op = "redo" /\ hist[i - 1].redoStack = <<>>
DeleteAbsent(i) ==
    hist[i].op = "deleteNoteById" /\ hist[i].arg \notin IdsOf(hist[i - 1].notes)

\* C15 (SpecH): undo() with an empty undoStack and redo() with an empty
\* redoStack change nothing: notes, undoStack and redoStack are as before.
C15_EmptyStackNoOps ==
    \A i \in 2..Len(hist) :
        (UndoEmpty(i) \/ RedoEmpty(i)) => SameStore(hist[i], hist[i - 1])

\* C15 witness: a store holding loaded notes got undo() with nothing to undo
\* and then redo() with nothing to redo.
C15_Witness ==
    /\ Len(hist) >= 3
    /\ RedoEmpty(Len(hist)) /\ UndoEmpty(Len(hist) - 1)
    /\ notes # <<>>

\* C16 (SpecH): deleteById of an id no note has leaves notes, undoStack and
\* redoStack unchanged; a non-empty redoStack is not cleared.
C16_DeleteAbsentNoOp ==
    \A i \in 2..Len(hist) : DeleteAbsent(i) => SameStore(hist[i], hist[i - 1])

\* C16 witness: deleteById of an absent id was called with entries to redo.
C16_Witness ==
    /\ Len(hist) >= 2
    /\ DeleteAbsent(Len(hist))
    /\ Prev.redoStack # <<>>

\* C17 (SpecH): every invalid store call is reported: deleteById of an absent
\* id, undo() on an empty undoStack and redo() on an empty redoStack each
\* print a notification.
C17_InvalidOpsReported ==
    \A i \in 2..Len(hist) :
        (DeleteAbsent(i) \/ UndoEmpty(i) \/ RedoEmpty(i)) => hist[i].console # <<>>

\* a >= b on two Dates: the time values are compared, and a comparison with an
\* invalid Date (NaN) is false.
DateGE(a, b) == a # InvalidDate /\ b # InvalidDate /\ a >= b

\* C18 (SpecDates): every Note the store refers to, however it was constructed
\* (dates supplied or omitted), updated or rebuilt by loadFromFile, has
\* updatedAt >= createdAt.
C18_UpdatedNotBeforeCreated ==
    \A n \in LiveNotes(Store) : DateGE(n.updatedAt, n.createdAt)

AddedSilently(i) == hist[i].op = "addNoteWithoutStacking"
DeletedSilently(i) == hist[i].op = "deleteNoteWithoutStacking"

\* C19 (SpecSilent): the silent primitives keep no books: addNoteWithoutStacking
\* appends the note, deleteNoteWithoutStacking removes the note with the given
\* id (none when no note has it), and both leave undoStack and redoStack as
\* they were, a non-empty redoStack included.
C19_SilentPrimitives ==
    \A i \in 2..Len(hist) :
        /\ (AddedSilently(i) \/ DeletedSilently(i)) =>
              /\ hist[i].undoStack = hist[i - 1].undoStack
              /\ hist[i].redoStack = hist[i - 1].redoStack
        /\ AddedSilently(i) =>
              /\ Len(hist[i].notes) = Len(hist[i - 1].notes) + 1
              /\ IsPrefix(hist[i - 1].notes, hist[i].notes)
              /\ Last(hist[i].notes).id = hist[i].arg
        /\ DeletedSilently(i) =>
              IF hist[i].arg \in IdsOf(hist[i - 1].notes)
              THEN \E k \in 1..Len(hist[i - 1].notes) :
                       /\ hist[i - 1].notes[k].id = hist[i].arg
                       /\ hist[i].notes = RemoveAt(hist[i - 1].notes, k)
              ELSE hist[i].notes = hist[i - 1].notes

\* C19 witness: with an entry to redo, a note was added silently and then a
\* note was removed silently.
C19_Witness ==
    /\ Len(hist) >= 3
    /\ DeletedSilently(Len(hist)) /\ Cur.arg \in IdsOf(Prev.notes)
    /\ AddedSilently(Len(hist) - 1)
    /\ hist[Len(hist) - 2].redoStack # <<>>

\* C20 (SpecSeq): from an empty store, add(A) followed at once by
\* deleteById(A.id) leaves notes empty; the first undo() after them leaves
\* notes holding exactly A, its fields unchanged, and the second undo() leaves
\* notes empty again.
C20_AddDeleteUndoUndo ==
    AddThenDelete =>
        /\ hist[3].notes = <<>>
        /\ OpsFrom(4, <<"undo">>) => hist[4].notes = <<NoteA>>
        /\ OpsFrom(4, <<"undo", "undo">>) => hist[5].notes = <<>>

\* C20 witness: add(A), deleteById(A.id), undo(), undo() have just run.
C20_Witness ==
    AddThenDelete /\ OpsFrom(4, <<"undo", "undo">>) /\ Len(hist) = 5

\* C21 (SpecUpdate): Note.update(title, content) replaces title and content,
\* sets updatedAt to the current instant and leaves id and createdAt as they
\* were; the other notes are not touched.
C21_UpdateFrame ==
    \A i \in 2..Len(hist) :
        hist[i].op = "update" =>
            /\ Len(hist[i].notes) = Len(hist[i - 1].notes)
            /\ \A j \in 1..Len(hist[i].notes) :
                  LET old == hist[i - 1].notes[j]
                      new == hist[i].notes[j]
                  IN  IF old.obj = hist[i].arg.obj
                      THEN /\ new.title = hist[i].arg.title
                           /\ new.content = hist[i].arg.content
                           /\ new.updatedAt = hist[i].arg.now
                           /\ new.id = old.id
                           /\ new.createdAt = old.createdAt
                      ELSE new = old

\* C21 witness: a note was updated at a later instant than it was created,
\* with another title.
C21_Witness ==
    /\ Called("update")
    /\ \E j \in 1..Len(Prev.notes) :
          /\ Prev.notes[j].obj = Cur.arg.obj
          /\ Prev.notes[j].title # Cur.arg.title
          /\ Prev.notes[j].updatedAt < Cur.arg.now

\* A deleteById of the history whose id a note had.
DeletePresent(i) ==
    hist[i].op = "deleteNoteById" /\ hist[i].arg \in IdsOf(hist[i - 1].notes)

\* C22 (SpecH): deleteById(id) with a note of that id present removes exactly
\* one note, the first with that id, keeps the others in their order, pushes
\* exactly one DeleteNote entry holding the removed note onto undoStack, and
\* empties redoStack.
C22_DeletePresent ==
    \A i \in 2..Len(hist) :
        DeletePresent(i) =>
            \E k \in 1..Len(hist[i - 1].notes) :
                /\ hist[i - 1].notes[k].id = hist[i].arg
                /\ \A j \in 1..(k - 1) : hist[i - 1].notes[j].id # hist[i].arg
                /\ hist[i].notes = RemoveAt(hist[i - 1].notes, k)
                /\ hist[i].undoStack =
                      Append(hist[i - 1].undoStack,
                             [action |-> "deleteNote", note |-> hist[i - 1].notes[k]])
                /\ hist[i].redoStack = <<>>

\* C22 witness: a note was deleted from a store holding several notes, with
\* an entry to redo.
C22_Witness ==
    /\ Len(hist) >= 2
    /\ DeletePresent(Len(hist))
    /\ Len(Prev.notes) >= 2
    /\ Prev.redoStack # <<>>

\* C23 (SpecH): undo() with a non-empty undoStack moves exactly one entry:
\* undoStack loses its top entry and nothing else, redoStack gains that entry,
\* unchanged, on top and nothing else.
C23_UndoTransfersOne ==
    \A i \in 2..Len(hist) :
        (hist[i].op = "undo" /\ hist[i - 1].undoStack # <<>>) =>
            /\ hist[i].undoStack = Front(hist[i - 1].undoStack)
            /\ hist[i].redoStack =
                  Append(hist[i - 1].redoStack, Last(hist[i - 1].undoStack))

\* C23 witness: undo() ran with both stacks non-empty.
C23_Witness ==
    /\ Called("undo")
    /\ Prev.undoStack # <<>>
    /\ Prev.redoStack # <<>>

\* A call ended by invoking its callback or by printing an error.
EndedWell ==
    /\ ops = <<>>
    /\ last.kind # "none"
    /\ (last.cb = 1 \/ last.err > 0)

\* C24 (SpecLive): under fair completion of backend I/O every saveToFile and
\* every loadFromFile call that was started eventually ends by invoking its
\* callback or by printing an error, whatever the backend holds.
C24_CallsEndWell == (ops # <<>>) ~> EndedWell

\* C25 (SpecH): whenever undoStack is not empty its top entry can be inverted
\* against the notes: an addNote entry holds the last element of notes, a
\* deleteNote entry holds a note whose id no note has.
C25_TopInvertible ==
    undoStack # <<>> =>
        LET top == Last(undoStack)
        IN  /\ top.action = "addNote" =>
                  (notes # <<>> /\ Last(notes) = top.note)
            /\ top.action = "deleteNote" =>
                  top.note.id \notin IdsOf(notes)

\* No two records of a backend text have the same id.
DistinctRecordIds(f) ==
    \A i, j \in 1..Len(f.items) :
        (/\ f.items[i].kind = "object"
         /\ f.items[j].kind = "object"
         /\ f.items[i].id = f.items[j].id) => i = j

\* C26 (SpecRT): saves to one key that was absent at first, by a store whose
\* notes have pairwise distinct ids, never persist two records with the same
\* id: a successful save of such a store over contents without a repeated id
\* leaves contents without a repeated id.
C26_SavedIdsDistinct ==
    [][(/\ last'.kind = "save" /\ last'.wrote
        /\ DistinctIds(notes)
        /\ DistinctRecordIds(file)) => DistinctRecordIds(file')]_vars

\* C27 (SpecH): a loadFromFile on notes with pairwise distinct ids leaves
\* notes with pairwise distinct ids, whatever the backend holds, contents that
\* repeat an id included.
C27_LoadKeepsIdsDistinct ==
    \A i \in 2..Len(hist) :
        (hist[i].op = "loadFromFile" /\ DistinctIds(hist[i - 1].notes)) =>
            DistinctIds(hist[i].notes)

\* C27 witness: a store that held notes with distinct ids loaded contents in
\* which two records have the same id, and a note was appended.
C27_Witness ==
    /\ Called("loadFromFile")
    /\ Prev.notes # <<>>
    /\ DistinctIds(Prev.notes)
    /\ ~DistinctRecordIds(file)
    /\ Len(Cur.notes) > Len(Prev.notes)

\* C28 (SpecIO): saveToFile invokes its callback only after the write of the
\* call succeeded, and not when the call printed an error.
C28_CallbackOnlyOnCleanSave ==
    (last.kind = "save" /\ last.cb = 1) => (last.wrote /\ last.err = 0)

====
